---- MODULE Spec2Model ----
(***************************************************************************)
(* Model of backend/agv_manager.py: the AGV telemetry pipeline.  An MQTT   *)
(* message is decoded, stored in agv_logs, checked against the low-battery *)
(* rule and, when the rule fires, answered with a RETURN_TO_BASE command.  *)
(*                                                                         *)
(* Strings the code inspects are sequences of one-character strings, so    *)
(* that str.split and the f-string concatenation are computed.  A JSON     *)
(* value is a record [t, s, n]: t is its type, s its characters when it is *)
(* a string, n its value when it is an integer.  Timestamps (datetime.now, *)
(* time.time) are left out of rows and command bodies.                     *)
(***************************************************************************)
EXTENDS Integers, Sequences, FiniteSets, TLC

\* Number of messages the broker delivers in a run.
MaxMessages == 2

\* Number of times the broker answers a connection request in a run.
MaxConnects == 3

\* Number of connections init_db may leave open in a run.
MaxLeaked == 2

\* ---------------------------------------------------------------------
\* Values
\* ---------------------------------------------------------------------
JStr(s) == [t |-> "str", s |-> s, n |-> 0]

JInt(n) == [t |-> "int", s |-> <<>>, n |-> n]

JNull == [t |-> "null", s |-> <<>>, n |-> 0]

CONTROL_TOPIC_BASE == <<"f","a","c","t","o","r","y","/","c","o","n","t","r","o","l">>

UNKNOWN == <<"U","n","k","n","o","w","n">>

MOVING == <<"M","O","V","I","N","G">>

RETURNING == <<"R","E","T","U","R","N","I","N","G">>

FACTORY_AGV_007 == <<"f","a","c","t","o","r","y","/","a","g","v","/","0","0","7">>

ID_007 == <<"0","0","7">>

LOW_BATTERY == 20

\* Values the three fields take on the wire (a field may also be absent).
AgvIdValues == {JStr(FACTORY_AGV_007), JInt(7)}

BatteryValues == {JInt(19), JInt(20), JNull}

StatusValues == {JStr(MOVING), JStr(RETURNING)}

Fields == {"agv_id", "battery", "status"}

FieldValues(k) ==
    IF k = "agv_id" THEN AgvIdValues
    ELSE IF k = "battery" THEN BatteryValues
    ELSE StatusValues

\* The type dict.get's caller expects of each field.
FieldType(k) == IF k = "battery" THEN "int" ELSE "str"

\* The dicts json.loads returns: any subset of the fields present; a dict
\* with a value of the wrong type has one such value, and its agv_id and
\* status present.
Dicts ==
    LET all == UNION {{d \in [ks -> AgvIdValues \cup BatteryValues \cup StatusValues] :
                          \A k \in ks : d[k] \in FieldValues(k)} : ks \in SUBSET Fields}
        wrong(d) == {k \in DOMAIN d : d[k].t # FieldType(k)}
    IN  {d \in all : \/ wrong(d) = {}
                      \/ /\ Cardinality(wrong(d)) = 1
                         /\ {"agv_id", "status"} \subseteq DOMAIN d}

EmptyDict == [k \in {} |-> JNull]

\* message.payload, by what decode("utf-8") and json.loads make of it.
Payloads ==
    {[kind |-> "object", data |-> d] : d \in Dicts}
    \cup {[kind |-> k, data |-> EmptyDict] :
             k \in {"bad_utf8", "not_json", "array", "scalar"}}

NoMessage == [kind |-> "none", data |-> EmptyDict]

\* What the MySQL server does with one save_to_db call.
DbOutcomes == {"ok", "connect_fail", "execute_fail", "commit_fail"}

\* What client.publish does: returns, or raises (e.g. ValueError).
PubOutcomes == {"ok", "raise"}

\* ---------------------------------------------------------------------
\* Python exceptions and except clauses
\* ---------------------------------------------------------------------
Bases(exc) ==
    IF exc = "JSONDecodeError" THEN {"JSONDecodeError", "ValueError", "Exception"}
    ELSE IF exc = "UnicodeDecodeError" THEN {"UnicodeDecodeError", "ValueError", "Exception"}
    ELSE {exc, "Exception"}

\* Index of the first except clause that catches exc, 0 when none does.
Caught(handlers, exc) ==
    LET hits == {i \in 1..Len(handlers) : handlers[i] \in Bases(exc)}
    IN  IF hits = {} THEN 0 ELSE CHOOSE i \in hits : \A j \in hits : i <= j

\* dict.get(key, default)
get(data, key, default) == IF key \in DOMAIN data THEN data[key] ELSE default

is_dict(m) == m.kind = "object"

\* str.split(sep), scanning s from position i with cur the segment so far.
RECURSIVE SplitFrom(_, _, _, _)
SplitFrom(s, sep, i, cur) ==
    IF i > Len(s) THEN <<cur>>
    ELSE IF s[i] = sep THEN <<cur>> \o SplitFrom(s, sep, i + 1, <<>>)
    ELSE SplitFrom(s, sep, i + 1, Append(cur, s[i]))

split(s, sep) == SplitFrom(s, sep, 1, <<>>)

\* The first segment taken for the last one.
short_id_first(agv_id) == LET parts == split(agv_id, "/") IN parts[1]

\* agv_id.split('/')[-1]
short_id(agv_id) == LET parts == split(agv_id, "/") IN parts[Len(parts)]

\* f"{CONTROL_TOPIC_BASE}/{short_id}"
target_topic(agv_id) == CONTROL_TOPIC_BASE \o <<"/">> \o short_id(agv_id)

\* The body addressed by the short id.
command_payload_short(agv_id) ==
    [target_id |-> short_id(agv_id), command |-> "RETURN_TO_BASE", reason |-> "Low Battery"]

command_payload(agv_id) ==
    [target_id |-> agv_id, command |-> "RETURN_TO_BASE", reason |-> "Low Battery"]

\* ---------------------------------------------------------------------
\* save_to_db
\* ---------------------------------------------------------------------
save_fields(data) ==
    [agv_id  |-> get(data, "agv_id", JStr(UNKNOWN)),
     battery |-> get(data, "battery", JInt(0)),
     status  |-> get(data, "status", JStr(UNKNOWN))]

\* try/finally with no except clause: the error goes on to the caller.
save_to_db_handlers_none == <<>>

save_to_db_handlers == <<"Exception">>

\* A failed commit whose row is kept all the same.
save_to_db_try_commit_kept(m, d) ==
    IF d = "connect_fail"
    THEN [events |-> <<"connect">>, rows |-> <<>>, exc |-> "MySQLError", conn |-> FALSE]
    ELSE IF ~is_dict(m)
    THEN [events |-> <<"connect", "cursor">>, rows |-> <<>>,
          exc |-> "AttributeError", conn |-> TRUE]
    ELSE IF d = "execute_fail"
    THEN [events |-> <<"connect", "cursor", "execute">>, rows |-> <<>>,
          exc |-> "MySQLError", conn |-> TRUE]
    ELSE IF d = "commit_fail"
    THEN [events |-> <<"connect", "cursor", "execute", "commit">>,
          rows |-> <<save_fields(m.data)>>, exc |-> "MySQLError", conn |-> TRUE]
    ELSE [events |-> <<"connect", "cursor", "execute", "commit", "db_saved">>,
          rows |-> <<save_fields(m.data)>>, exc |-> "none", conn |-> TRUE]

\* The try body: the calls made, the rows committed, the exception raised,
\* and whether conn was bound.  The connection is opened before the fields
\* are read, so a value that is not a dict fails after connect and cursor.
\* A row is the parameter tuple of an INSERT whose commit returned.
save_to_db_try(m, d) ==
    IF d = "connect_fail"
    THEN [events |-> <<"connect">>, rows |-> <<>>, exc |-> "MySQLError", conn |-> FALSE]
    ELSE IF ~is_dict(m)
    THEN [events |-> <<"connect", "cursor">>, rows |-> <<>>,
          exc |-> "AttributeError", conn |-> TRUE]
    ELSE IF d = "execute_fail"
    THEN [events |-> <<"connect", "cursor", "execute">>, rows |-> <<>>,
          exc |-> "MySQLError", conn |-> TRUE]
    ELSE IF d = "commit_fail"
    THEN [events |-> <<"connect", "cursor", "execute", "commit">>, rows |-> <<>>,
          exc |-> "MySQLError", conn |-> TRUE]
    ELSE [events |-> <<"connect", "cursor", "execute", "commit", "db_saved">>,
          rows |-> <<save_fields(m.data)>>, exc |-> "none", conn |-> TRUE]

\* conn.close() at the end of the try body instead of in finally.
save_to_db_close_on_success(m, d) ==
    LET body    == save_to_db_try(m, d)
        handled == body.exc = "none" \/ Caught(save_to_db_handlers, body.exc) # 0
        logged  == IF body.exc # "none" /\ handled THEN <<"db_error">> ELSE <<>>
        closed  == IF body.conn /\ body.exc = "none" THEN <<"close">> ELSE <<>>
    IN  [events |-> <<"save_to_db">> \o body.events \o closed \o logged,
         rows   |-> body.rows,
         exc    |-> IF handled THEN "none" ELSE body.exc]

\* try / except Exception / finally: the error is logged and swallowed, and
\* conn.close() runs whenever conn was bound (close itself does not raise).
save_to_db(m, d) ==
    LET body    == save_to_db_try(m, d)
        handled == body.exc = "none" \/ Caught(save_to_db_handlers, body.exc) # 0
        logged  == IF body.exc # "none" /\ handled THEN <<"db_error">> ELSE <<>>
        closed  == IF body.conn THEN <<"close">> ELSE <<>>
    IN  [events |-> <<"save_to_db">> \o body.events \o logged \o closed,
         rows   |-> body.rows,
         exc    |-> IF handled THEN "none" ELSE body.exc]

\* ---------------------------------------------------------------------
\* process_and_control
\* ---------------------------------------------------------------------
\* A missing battery read as full instead of empty.
control_fields_full_battery(data) ==
    [agv_id  |-> get(data, "agv_id", JStr(UNKNOWN)),
     battery |-> get(data, "battery", JInt(100)),
     status  |-> get(data, "status", JStr(UNKNOWN))]

control_fields(data) ==
    [agv_id  |-> get(data, "agv_id", JStr(UNKNOWN)),
     battery |-> get(data, "battery", JInt(0)),
     status  |-> get(data, "status", JStr(UNKNOWN))]

\* A publish that raised tried once more.
process_and_control_retry(m, p) ==
    IF ~is_dict(m)
    THEN [events |-> <<"process_and_control">>, pubs |-> <<>>, exc |-> "AttributeError"]
    ELSE LET f == control_fields(m.data) IN
         IF f.battery.t # "int"
         THEN [events |-> <<"process_and_control">>, pubs |-> <<>>, exc |-> "TypeError"]
         ELSE IF f.battery.n < LOW_BATTERY /\ f.status = JStr(MOVING)
         THEN IF f.agv_id.t # "str"
              THEN [events |-> <<"process_and_control", "decide">>, pubs |-> <<>>,
                    exc |-> "AttributeError"]
              ELSE IF p = "raise"
              THEN [events |-> <<"process_and_control", "decide", "publish", "publish">>,
                    pubs |-> <<>>, exc |-> "ValueError"]
              ELSE [events |-> <<"process_and_control", "decide", "publish", "sent">>,
                    pubs |-> <<[topic   |-> target_topic(f.agv_id.s),
                                payload |-> command_payload(f.agv_id.s)]>>,
                    exc |-> "none"]
         ELSE [events |-> <<"process_and_control">>, pubs |-> <<>>, exc |-> "none"]

\* data.get fails on a value that is not a dict; battery < 20 is evaluated
\* first and raises TypeError unless battery is a number; inside the branch
\* agv_id.split raises AttributeError unless agv_id is a string.
process_and_control(m, p) ==
    IF ~is_dict(m)
    THEN [events |-> <<"process_and_control">>, pubs |-> <<>>, exc |-> "AttributeError"]
    ELSE LET f == control_fields(m.data) IN
         IF f.battery.t # "int"
         THEN [events |-> <<"process_and_control">>, pubs |-> <<>>, exc |-> "TypeError"]
         ELSE IF f.battery.n < LOW_BATTERY /\ f.status = JStr(MOVING)
         THEN IF f.agv_id.t # "str"
              THEN [events |-> <<"process_and_control", "decide">>, pubs |-> <<>>,
                    exc |-> "AttributeError"]
              ELSE IF p = "raise"
              THEN [events |-> <<"process_and_control", "decide", "publish">>,
                    pubs |-> <<>>, exc |-> "ValueError"]
              ELSE [events |-> <<"process_and_control", "decide", "publish", "sent">>,
                    pubs |-> <<[topic   |-> target_topic(f.agv_id.s),
                                payload |-> command_payload(f.agv_id.s)]>>,
                    exc |-> "none"]
         ELSE [events |-> <<"process_and_control">>, pubs |-> <<>>, exc |-> "none"]

\* ---------------------------------------------------------------------
\* on_message
\* ---------------------------------------------------------------------
\* Only the JSON error handled.
on_message_handlers_json_only == <<"JSONDecodeError">>

on_message_handlers == <<"JSONDecodeError", "Exception">>

\* The rule checked before the reading is stored.
on_message_try_rule_first(m, d, p) ==
    IF m.kind = "bad_utf8"
    THEN [events |-> <<>>, rows |-> <<>>, pubs |-> <<>>, exc |-> "UnicodeDecodeError"]
    ELSE IF m.kind = "not_json"
    THEN [events |-> <<>>, rows |-> <<>>, pubs |-> <<>>, exc |-> "JSONDecodeError"]
    ELSE LET c == process_and_control(m, p) IN
         IF c.exc # "none"
         THEN [events |-> c.events, rows |-> <<>>, pubs |-> c.pubs, exc |-> c.exc]
         ELSE LET s == save_to_db(m, d) IN
              [events |-> c.events \o s.events, rows |-> s.rows,
               pubs |-> c.pubs, exc |-> s.exc]

\* Text that is not JSON read as an empty object.
on_message_try_lenient(m, d, p) ==
    IF m.kind = "bad_utf8"
    THEN [events |-> <<>>, rows |-> <<>>, pubs |-> <<>>, exc |-> "UnicodeDecodeError"]
    ELSE LET mm == IF m.kind = "not_json" THEN [kind |-> "object", data |-> EmptyDict]
                   ELSE m
             s  == save_to_db(mm, d)
         IN  IF s.exc # "none"
             THEN [events |-> s.events, rows |-> s.rows, pubs |-> <<>>, exc |-> s.exc]
             ELSE LET c == process_and_control(mm, p) IN
                  [events |-> s.events \o c.events, rows |-> s.rows,
                   pubs |-> c.pubs, exc |-> c.exc]

\* The try body of on_message.
on_message_try(m, d, p) ==
    IF m.kind = "bad_utf8"
    THEN [events |-> <<>>, rows |-> <<>>, pubs |-> <<>>, exc |-> "UnicodeDecodeError"]
    ELSE IF m.kind = "not_json"
    THEN [events |-> <<>>, rows |-> <<>>, pubs |-> <<>>, exc |-> "JSONDecodeError"]
    ELSE LET s == save_to_db(m, d) IN
         IF s.exc # "none"
         THEN [events |-> s.events, rows |-> s.rows, pubs |-> <<>>, exc |-> s.exc]
         ELSE LET c == process_and_control(m, p) IN
              [events |-> s.events \o c.events, rows |-> s.rows,
               pubs |-> c.pubs, exc |-> c.exc]

on_message_result(m, d, p) ==
    LET body == on_message_try(m, d, p)
        h    == IF body.exc = "none" THEN 0 ELSE Caught(on_message_handlers, body.exc)
        logged == IF h = 0 THEN <<>>
                  ELSE IF on_message_handlers[h] = "JSONDecodeError" THEN <<"json_error">>
                  ELSE <<"error">>
    IN  [events |-> body.events \o logged, rows |-> body.rows, pubs |-> body.pubs,
         escaped |-> body.exc # "none" /\ h = 0]

\* ---------------------------------------------------------------------
\* init_db and on_connect
\* ---------------------------------------------------------------------
\* The server as init_db finds it: unreachable, reachable but failing the
\* CREATE TABLE or its commit, or ready.
DbStates == {"down", "degraded", "up"}

\* What one attempt of init_db meets, by the state of the server.
InitOutcomes(state) ==
    IF state = "down" THEN {"connect_fail"}
    ELSE IF state = "degraded" THEN {"execute_fail", "commit_fail"}
    ELSE {"ok"}

\* No except clause: the error ends the process.
init_db_handlers_none == <<>>

init_db_handlers == <<"MySQLError">>

\* The try body of one pass of the while loop: whether get_db_connection
\* returned, whether the table was committed, whether conn.close() was
\* reached, and the exception raised.
init_db_try(o) ==
    IF o = "connect_fail"
    THEN [opened |-> FALSE, created |-> FALSE, closed |-> FALSE, exc |-> "MySQLError"]
    ELSE IF o \in {"execute_fail", "commit_fail"}
    THEN [opened |-> TRUE, created |-> FALSE, closed |-> FALSE, exc |-> "MySQLError"]
    ELSE [opened |-> TRUE, created |-> TRUE, closed |-> TRUE, exc |-> "none"]

\* A failed pass that leaves the loop as a successful one does.
init_db_pass_break(o) ==
    LET body == init_db_try(o)
    IN  [next    |-> IF body.exc = "none" THEN "setup"
                     ELSE IF Caught(init_db_handlers, body.exc) # 0 THEN "setup"
                     ELSE "exited",
         created |-> body.created,
         leaked  |-> IF body.opened /\ ~body.closed THEN 1 ELSE 0]

\* One pass of the while loop: break on success, sleep(3) and go round again
\* on MySQLError; any other exception would leave init_db and end the process.
init_db_pass(o) ==
    LET body == init_db_try(o)
    IN  [next    |-> IF body.exc = "none" THEN "setup"
                     ELSE IF Caught(init_db_handlers, body.exc) # 0 THEN "init_sleep"
                     ELSE "exited",
         created |-> body.created,
         leaked  |-> IF body.opened /\ ~body.closed THEN 1 ELSE 0]

\* The return codes on_connect is given: 0 accepted, 5 not authorised.
ConnectCodes == {0, 5}

\* A subscription whatever the return code.
on_connect_subscribes_always(rc) == TRUE

\* on_connect subscribes to MQTT_TOPIC when rc == 0 and only logs otherwise.
on_connect_subscribes(rc) == rc = 0

VARIABLES log, published, handled, msg, events, crashed,
          phase, db, table_ready, init_open, connected, sessions, subscribes, refused

vars == <<log, published, handled, msg, events, crashed,
          phase, db, table_ready, init_open, connected, sessions, subscribes, refused>>

pipeline_vars == <<log, published, handled, msg, events, crashed>>

startup_vars == <<phase, db, table_ready, init_open, connected, sessions, subscribes, refused>>

\* The loop is running on a session the broker accepted, after a startup
\* that found the server ready at once.
Init ==
    /\ log = <<>>
    /\ published = <<>>
    /\ handled = 0
    /\ msg = NoMessage
    /\ events = <<>>
    /\ crashed = FALSE
    /\ phase = "loop"
    /\ db = "up"
    /\ table_ready = TRUE
    /\ init_open = 0
    /\ connected = TRUE
    /\ sessions = 1
    /\ subscribes = 1
    /\ refused = 0

\* A command already sent not sent again.
on_message_once(m, d, p) ==
    /\ phase = "loop"
    /\ connected
    /\ subscribes > 0
    /\ ~crashed
    /\ handled < MaxMessages
    /\ LET r    == on_message_result(m, d, p)
           seen == \E i \in DOMAIN published : \E j \in DOMAIN r.pubs :
                       published[i] = r.pubs[j]
       IN
         /\ log' = log \o r.rows
         /\ published' = IF seen THEN published ELSE published \o r.pubs
         /\ events' = IF seen THEN SelectSeq(r.events, LAMBDA e : e \notin {"publish", "sent"})
                      ELSE r.events
         /\ crashed' = r.escaped
    /\ handled' = handled + 1
    /\ msg' = m
    /\ UNCHANGED startup_vars

\* The broker delivers m; the callback runs to its end.
on_message(m, d, p) ==
    /\ phase = "loop"
    /\ connected
    /\ subscribes > 0
    /\ ~crashed
    /\ handled < MaxMessages
    /\ LET r == on_message_result(m, d, p) IN
         /\ log' = log \o r.rows
         /\ published' = published \o r.pubs
         /\ events' = r.events
         /\ crashed' = r.escaped
    /\ handled' = handled + 1
    /\ msg' = m
    /\ UNCHANGED startup_vars

\* The server and the broker answer only the calls the callback makes.
DbOutcomesFor(m) ==
    LET e == on_message_result(m, "ok", "ok").events
    IN  IF \E i \in DOMAIN e : e[i] = "connect" THEN DbOutcomes ELSE {"ok"}

PubOutcomesFor(m, d) ==
    LET e == on_message_result(m, d, "ok").events
    IN  IF \E i \in DOMAIN e : e[i] = "publish" THEN PubOutcomes ELSE {"ok"}

Next ==
    \E m \in Payloads : \E d \in DbOutcomesFor(m) : \E p \in PubOutcomesFor(m, d) :
        on_message(m, d, p)

Spec == Init /\ [][Next]_vars

\* ---------------------------------------------------------------------
\* The process from its start: init_db, the client set up, sessions
\* ---------------------------------------------------------------------
InitStartup ==
    /\ log = <<>>
    /\ published = <<>>
    /\ handled = 0
    /\ msg = NoMessage
    /\ events = <<>>
    /\ crashed = FALSE
    /\ phase = "init_try"
    /\ db \in DbStates
    /\ table_ready = FALSE
    /\ init_open = 0
    /\ connected = FALSE
    /\ sessions = 0
    /\ subscribes = 0
    /\ refused = 0

\* The server changes state; init_db is the only reader of that state.
db_change(st) ==
    /\ phase \in {"init_try", "init_sleep", "exited"}
    /\ st # db
    /\ db' = st
    /\ UNCHANGED <<phase, table_ready, init_open, connected, sessions, subscribes, refused>>
    /\ UNCHANGED pipeline_vars

\* One pass of the while loop of init_db, up to break or to time.sleep(3).
init_db_attempt(o) ==
    /\ phase = "init_try"
    /\ o \in InitOutcomes(db)
    /\ LET r == init_db_pass(o) IN
         /\ init_open + r.leaked <= MaxLeaked
         /\ phase' = r.next
         /\ table_ready' = (table_ready \/ r.created)
         /\ init_open' = init_open + r.leaked
    /\ UNCHANGED <<db, connected, sessions, subscribes, refused>>
    /\ UNCHANGED pipeline_vars

\* time.sleep(3) returns and the loop goes round.
init_db_sleep ==
    /\ phase = "init_sleep"
    /\ phase' = "init_try"
    /\ UNCHANGED <<db, table_ready, init_open, connected, sessions, subscribes, refused>>
    /\ UNCHANGED pipeline_vars

\* The client is made and client.connect called; when it raises, the error
\* is logged and the process ends, otherwise loop_forever runs.
client_connect(ok) ==
    /\ phase = "setup"
    /\ phase' = IF ok THEN "loop" ELSE "exited"
    /\ UNCHANGED <<db, table_ready, init_open, connected, sessions, subscribes, refused>>
    /\ UNCHANGED pipeline_vars

\* The broker answers a connection request with return code rc.
on_connect(rc) ==
    /\ phase = "loop"
    /\ ~crashed
    /\ ~connected
    /\ sessions + refused < MaxConnects
    /\ connected' = (rc = 0)
    /\ sessions' = IF rc = 0 THEN sessions + 1 ELSE sessions
    /\ refused' = IF rc = 0 THEN refused ELSE refused + 1
    /\ subscribes' = IF on_connect_subscribes(rc) THEN subscribes + 1 ELSE subscribes
    /\ UNCHANGED <<phase, db, table_ready, init_open>>
    /\ UNCHANGED pipeline_vars

\* The session is lost; the client asks for a new one.
disconnect ==
    /\ phase = "loop"
    /\ connected
    /\ connected' = FALSE
    /\ UNCHANGED <<phase, db, table_ready, init_open, sessions, subscribes, refused>>
    /\ UNCHANGED pipeline_vars

\* The messages followed from the start of the process: one that fires the
\* rule and one that is not JSON.
StartupPayloads ==
    {[kind |-> "object",
      data |-> [k \in {"agv_id", "status"} |->
                   IF k = "agv_id" THEN JStr(FACTORY_AGV_007) ELSE JStr(MOVING)]],
     [kind |-> "not_json", data |-> EmptyDict]}

NextStartup ==
    \/ \E st \in DbStates : db_change(st)
    \/ \E o \in DbOutcomes : init_db_attempt(o)
    \/ init_db_sleep
    \/ \E ok \in BOOLEAN : client_connect(ok)
    \/ \E rc \in ConnectCodes : on_connect(rc)
    \/ disconnect
    \/ \E m \in StartupPayloads : on_message(m, "ok", "ok")

SpecStartup == InitStartup /\ [][NextStartup]_vars

\* The process runs its next statement: a pass of the loop and the return
\* of time.sleep are not put off for ever.
SpecStartupFair ==
    /\ SpecStartup
    /\ WF_vars(\E o \in DbOutcomes : init_db_attempt(o))
    /\ WF_vars(init_db_sleep)

TypeOK ==
    /\ handled \in 0..MaxMessages
    /\ Len(log) <= handled
    /\ Len(published) <= handled

\* ---------------------------------------------------------------------
\* Vocabulary of the properties
\* ---------------------------------------------------------------------
Has(e) == \E i \in DOMAIN events : events[i] = e

Count(e) == Cardinality({i \in DOMAIN events : events[i] = e})

Pos(e) == CHOOSE i \in DOMAIN events : events[i] = e /\ \A j \in 1..(i - 1) : events[j] # e

Decoded == msg.kind = "object"

Present(k) == k \in DOMAIN msg.data

\* save_to_db was entered and did not get to the end of its write.
WriteFailed == Has("save_to_db") /\ ~Has("db_saved")

\* The reading of the last message: absent fields take their defaults.
Reading ==
    [vehicle_id |-> IF Present("agv_id") THEN msg.data["agv_id"] ELSE JStr(UNKNOWN),
     battery    |-> IF Present("battery") THEN msg.data["battery"] ELSE JInt(0),
     status     |-> IF Present("status") THEN msg.data["status"] ELSE JStr(UNKNOWN)]

RuleFires == Reading.battery.n < 20 /\ Reading.status = JStr(MOVING)

\* seg is what follows the last "/" of id, all of id when it has no "/".
IsLastSegment(id, seg) ==
    \E k \in 0..Len(id) :
        /\ seg = SubSeq(id, k + 1, Len(id))
        /\ k = 0 \/ id[k] = "/"
        /\ \A i \in DOMAIN seg : seg[i] # "/"

LastRow == log[Len(log)]

LastCommand == published[Len(published)]

\* ---------------------------------------------------------------------
\* Properties
\* ---------------------------------------------------------------------

\* C1: for every decoded message whose battery is an integer (or absent),
\* client.publish is called if and only if battery < 20 and status is
\* "MOVING".
C1_PublishIffLowAndMoving ==
    (Decoded /\ Reading.battery.t = "int") => (Has("publish") <=> RuleFires)

\* C2, as stated: the target_id of the published body is the last
\* "/"-separated segment of the vehicle id, with command RETURN_TO_BASE and
\* reason Low Battery.
C2_TargetIdIsShortId ==
    Has("sent") =>
        /\ IsLastSegment(Reading.vehicle_id.s, LastCommand.payload.target_id)
        /\ LastCommand.payload.command = "RETURN_TO_BASE"
        /\ LastCommand.payload.reason = "Low Battery"

\* C2, amended: the target_id of the published body is the vehicle id as
\* received (all of it), with command RETURN_TO_BASE and reason Low Battery.
C2_TargetIdIsVehicleId ==
    Has("sent") =>
        /\ LastCommand.payload.target_id = Reading.vehicle_id.s
        /\ LastCommand.payload.command = "RETURN_TO_BASE"
        /\ LastCommand.payload.reason = "Low Battery"

C2_Witness ==
    /\ Has("sent")
    /\ Reading.vehicle_id = JStr(FACTORY_AGV_007)
    /\ LastCommand.payload.target_id = FACTORY_AGV_007

\* C3: every published command is on the topic "factory/control" + "/" +
\* short id, the short id being what follows the last "/" of the vehicle id
\* (the whole id when it has no "/"); nothing is published elsewhere.
C3_TopicIsBasePlusShortId ==
    /\ Has("sent") =>
           \E seg \in {SubSeq(Reading.vehicle_id.s, k + 1, Len(Reading.vehicle_id.s)) :
                          k \in 0..Len(Reading.vehicle_id.s)} :
               /\ IsLastSegment(Reading.vehicle_id.s, seg)
               /\ LastCommand.topic = CONTROL_TOPIC_BASE \o <<"/">> \o seg
    /\ \A i \in DOMAIN published :
           LET t == published[i].topic
               n == Len(CONTROL_TOPIC_BASE)
           IN  /\ Len(t) > n
               /\ SubSeq(t, 1, n) = CONTROL_TOPIC_BASE
               /\ t[n + 1] = "/"
               /\ \A j \in (n + 2)..Len(t) : t[j] # "/"

C3_Witness ==
    /\ Has("sent")
    /\ Reading.vehicle_id = JStr(FACTORY_AGV_007)
    /\ LastCommand.topic = CONTROL_TOPIC_BASE \o <<"/">> \o ID_007

\* C4: a malformed payload (not UTF-8, not JSON, or JSON that is not an
\* object) reaches neither save_to_db (no connection is opened) nor
\* process_and_control.
C4_MalformedNeverReachesStoreOrRule ==
    msg.kind \in {"bad_utf8", "not_json", "array", "scalar"} =>
        ~Has("save_to_db") /\ ~Has("connect") /\ ~Has("process_and_control")

C6_OnMessageNeverPropagates ==
    /\ ~crashed
    /\ handled < MaxMessages =>
           ENABLED on_message([kind |-> "object", data |-> EmptyDict], "ok", "ok")

\* A first message that left no row, then a message handled in full.
C6_Witness ==
    /\ handled = 2
    /\ Len(log) = 1
    /\ Has("db_saved")
    /\ Has("sent")
    /\ ~crashed

\* C7: for a decoded message, save_to_db has finished before the rule is
\* checked, the rule is checked before anything is published, and every
\* step recorded belongs to that one message.
C7_PersistThenDecideThenPublish ==
    Decoded =>
        /\ Count("save_to_db") = 1
        /\ Count("process_and_control") = 1
        /\ Count("publish") <= 1
        /\ \A i \in DOMAIN events :
               events[i] \in {"save_to_db", "connect", "cursor", "execute", "commit",
                              "db_saved", "db_error", "close"}
                   => i < Pos("process_and_control")
        /\ \A i \in DOMAIN events :
               events[i] \in {"decide", "publish", "sent"} => i > Pos("process_and_control")
        /\ Has("publish") => Has("decide") /\ Pos("decide") < Pos("publish")

C7_Witness == Decoded /\ Has("db_saved") /\ Has("sent")

\* C8: each message adds at most one row: the (vehicle_id, battery, status)
\* of the message, at the end of the log, when it was decoded and its write
\* succeeded, and nothing otherwise; earlier rows stay as they are.
C8_LogIsAppendOnlyProjection ==
    [][IF msg'.kind = "object" /\ (\E i \in DOMAIN events' : events'[i] = "db_saved")
       THEN log' = Append(log, [agv_id  |-> Reading.vehicle_id,
                                battery |-> Reading.battery,
                                status  |-> Reading.status]')
       ELSE log' = log]_vars

C8_Witness ==
    /\ handled = 2
    /\ Len(log) = 2
    /\ log[1] # log[2]

\* C9: a missing battery is stored as 0, a missing status as "Unknown", a
\* missing agv_id as "Unknown", and the rule is checked on the same values.
C9_MissingFieldsDefaulted ==
    (Decoded /\ \E k \in Fields : ~Present(k)) =>
        /\ Has("db_saved") =>
               /\ ~Present("agv_id") => LastRow.agv_id = JStr(UNKNOWN)
               /\ ~Present("battery") => LastRow.battery = JInt(0)
               /\ ~Present("status") => LastRow.status = JStr(UNKNOWN)
        /\ (Reading.battery.t = "int" /\ Reading.vehicle_id.t = "str")
               => (Has("publish") <=> RuleFires)
        /\ Has("sent") =>
               /\ ~Present("agv_id") => LastCommand.payload.target_id = UNKNOWN

C9_Witness ==
    /\ Decoded
    /\ ~Present("battery")
    /\ ~Present("agv_id")
    /\ Has("db_saved")
    /\ Has("sent")
    /\ LastRow.battery = JInt(0)

\* C10: a battery that is present but not an integer counts as 0: the row
\* stored has battery 0 and the rule is checked with battery 0.
C10_MalformedBatteryIsZero ==
    (Decoded /\ Present("battery") /\ msg.data["battery"].t # "int") =>
        /\ Has("db_saved") => LastRow.battery = JInt(0)
        /\ (Reading.status = JStr(MOVING) /\ Reading.vehicle_id.t = "str")
               => Has("publish")

\* C11: a message that is not JSON text leaves the log and the published
\* commands as they were and writes exactly one diagnostic, the JSON one.
C11_NotJsonChangesNothing ==
    [][(handled' = handled + 1 /\ msg'.kind = "not_json") =>
           /\ log' = log
           /\ published' = published
           /\ events' = <<"json_error">>]_vars

\* A message that is not JSON arrives when the log already has a row.
C11_Witness ==
    /\ msg.kind = "not_json"
    /\ handled = 2
    /\ Len(log) = 1
    /\ events = <<"json_error">>

\* C12: nothing is subscribed to and no message is handled before init_db
\* has created the table and committed; while the server is not ready the
\* process stays in the loop of init_db.
C12_NothingConsumedBeforeInitDb ==
    /\ [](  (subscribes > 0 \/ sessions > 0 \/ handled > 0 \/ Len(log) > 0
                \/ events # <<>> \/ phase \in {"setup", "loop"})
            => table_ready)
    /\ [][(phase \in {"init_try", "init_sleep"} /\ db # "up")
              => phase' \in {"init_try", "init_sleep"}]_vars

\* A message handled after a startup that had a failed pass.
C12_Witness ==
    /\ handled > 0
    /\ Len(log) > 0
    /\ table_ready
    /\ init_open > 0

\* C13: a message makes at most one call of client.publish; a call that
\* failed is not made again, by this message or a later one: whatever a
\* message adds to the published commands is its own command; and a message
\* adds to the log at most its own reading, never a command.
C13_AtMostOnePublishNoRetry ==
    [][handled' = handled + 1 =>
           /\ Count("publish")' <= 1
           /\ (Has("publish") /\ ~Has("sent"))' => published' = published
           /\ \/ published' = published
              \/ /\ msg'.kind = "object"
                 /\ RuleFires'
                 /\ published' =
                        Append(published,
                               [topic   |-> LastCommand.topic,
                                payload |-> [target_id |-> Reading.vehicle_id.s,
                                             command   |-> "RETURN_TO_BASE",
                                             reason    |-> "Low Battery"]]')
           /\ \/ log' = log
              \/ log' = Append(log, [agv_id  |-> Reading.vehicle_id,
                                     battery |-> Reading.battery,
                                     status  |-> Reading.status]')]_vars

\* A publish that failed, on the second message.
C13_Witness ==
    /\ handled = 2
    /\ Has("publish")
    /\ ~Has("sent")
    /\ Has("error")
    /\ Count("publish") = 1

\* conn.cursor() is reached only when get_db_connection returned.
ConnOpened == Has("cursor")

\* C14: a connection save_to_db opened is closed once, after every other
\* call on it and before save_to_db returns; when the connection could not
\* be opened nothing is closed; a message that does not reach save_to_db
\* opens none.
C14_SaveToDbClosesItsConnection ==
    /\ (Has("save_to_db") /\ ConnOpened) =>
           /\ Count("connect") = 1
           /\ Count("close") = 1
           /\ \A i \in DOMAIN events :
                  events[i] \in {"connect", "cursor", "execute", "commit",
                                 "db_saved", "db_error"} => i < Pos("close")
           /\ Has("process_and_control") => Pos("close") < Pos("process_and_control")
    /\ (Has("save_to_db") /\ ~ConnOpened) => Count("connect") = 1 /\ ~Has("close")
    /\ ~Has("save_to_db") => ~Has("connect") /\ ~Has("close")

\* An INSERT that fails on an open connection.
C14_Witness ==
    /\ Decoded
    /\ Has("execute")
    /\ ~Has("commit")
    /\ Has("db_error")
    /\ Has("close")

\* C15: if the server becomes ready and stays so, init_db comes to return
\* with the table committed; a failed pass goes to the sleep and the sleep
\* to another pass, and the loop is left only by a pass that found the
\* server ready.
C15_InitDbEventuallyReturns ==
    /\ (<>[](db = "up")) => <>(table_ready /\ phase \notin {"init_try", "init_sleep"})
    /\ [][phase = "init_try" =>
              \/ phase' = "init_try"
              \/ phase' = "init_sleep" /\ db # "up" /\ ~table_ready'
              \/ phase' = "setup" /\ db = "up" /\ table_ready']_vars
    /\ [][phase = "init_sleep" => phase' \in {"init_sleep", "init_try"}]_vars

\* init_db has returned after a pass that failed.
C15_Witness ==
    /\ phase = "setup"
    /\ table_ready
    /\ init_open > 0

\* C16: subscribe is called once for each session the broker accepted and
\* never for a refused one; after a refusal the process is still running.
C16_SubscribeOncePerSession ==
    /\ [](subscribes = sessions)
    /\ [](refused > 0 => phase = "loop" /\ ~crashed)
    /\ [][(sessions' = sessions + 1) <=> (subscribes' = subscribes + 1)]_vars
    /\ [][refused' # refused => subscribes' = subscribes /\ phase' = phase]_vars

\* A refusal, and a second session after the first was lost.
C16_Witness ==
    /\ sessions = 2
    /\ subscribes = 2
    /\ refused = 1
    /\ phase = "loop"

\* What the fields of the last message alone decide.
MessageDecision ==
    /\ Decoded
    /\ Reading.vehicle_id.t = "str"
    /\ Reading.battery.t = "int"
    /\ Reading.battery.n < 20
    /\ Reading.status = JStr(MOVING)

\* C17: whether client.publish is called for a message is decided by the
\* vehicle id, battery and status of that message alone, whatever came
\* before it and whatever was stored or sent.
C17_DecisionFromMessageAlone ==
    /\ Has("publish") <=> MessageDecision
    /\ Has("sent") => LastCommand.payload.target_id = Reading.vehicle_id.s

\* The same reading twice, the same command twice.
C17_Witness ==
    /\ handled = 2
    /\ Len(published) = 2
    /\ published[1] = published[2]
    /\ Has("sent")

\* C18: an object without battery and with status "MOVING" has
\* client.publish called for it, and when agv_id is absent too the command
\* goes to factory/control/Unknown.
C18_MissingBatteryMovingPublishes ==
    (Decoded /\ ~Present("battery") /\ Reading.status = JStr(MOVING)) =>
        /\ Has("publish")
        /\ (Has("sent") /\ ~Present("agv_id")) =>
               LastCommand.topic = CONTROL_TOPIC_BASE \o <<"/">> \o UNKNOWN

\* C19: no connection opened by a pass of init_db is open once the pass is
\* over.
C19_InitDbLeavesNoConnectionOpen == init_open = 0
====
